---- MODULE Spec2Model ----
(***************************************************************************)
(* A model of patcher.py: the manifest-driven pipeline                     *)
(*   load_manifest -> patch_mods -> edit_configs -> download_configs       *)
(* over an instance directory with mods/ and config/.                      *)
(*                                                                         *)
(* Text (file contents, config keys and values, URLs, file names) is a     *)
(* sequence of one-character strings, so that parsing, trimming and        *)
(* formatting are computed character by character as the code does.        *)
(* A directory of files is a function from file name to content.           *)
(* A Python dict is a function whose domain is the set of present keys     *)
(* (the manifest, a patch) or, where iteration order matters               *)
(* (config_data, patch["changes"]), a sequence of [k, v] entries with      *)
(* distinct keys in insertion order.                                       *)
(***************************************************************************)
EXTENDS Integers, Sequences, FiniteSets, TLC

VARIABLES
    manifest,    \* the parsed manifest (the same document on every run)
    mods,        \* files under mods/: name -> bytes
    config,      \* files under config/: relative path -> bytes
    dirs,        \* which of the directories "mods", "config" exist
    pc,          \* position of the running process in main()
    idx,         \* 1-based position in the list the current loop iterates
    run,         \* number of the current invocation of the program
    err,         \* the exception that ended the current run, or "none"
    last,        \* history: the step executed last
    prevMods,    \* history: mods/ before the step executed last
    prevConfig,  \* history: config/ before the step executed last
    mods0,       \* history: mods/ when the first run started
    config0,     \* history: config/ when the first run started
    fetched,     \* history: config path -> bytes last fetched for it, this run
    retrieved,   \* history: <<run, name>> of every urlretrieve call so far
    outcomes     \* history: how each earlier run ended ("done" / "aborted")

vars == <<manifest, mods, config, dirs, pc, idx, run, err, last, prevMods,
          prevConfig, mods0, config0, fetched, retrieved, outcomes>>

----------------------------------------------------------------------------
(* Bounds of the model *)

\* longest pre-existing config file (in characters) that SpecEdit enumerates
MaxLen == 5

\* number of invocations of the program in a row
MaxRuns == 2

----------------------------------------------------------------------------
(* Text *)

NL == "\n"

Whitespace == {" ", "\t", NL}

RECURSIVE Concat(_)
\* the concatenation of a sequence of texts
Concat(ss) == IF ss = <<>> THEN <<>> ELSE Head(ss) \o Concat(Tail(ss))

\* c in s
Contains(s, c) == \E i \in 1..Len(s) : s[i] = c

\* position of the first c in s, 0 when there is none
IndexOf(s, c) ==
    IF Contains(s, c) THEN CHOOSE i \in 1..Len(s) :
                               s[i] = c /\ \A j \in 1..(i - 1) : s[j] # c
    ELSE 0

\* position of the last c in s, 0 when there is none
LastIndexOf(s, c) ==
    IF Contains(s, c) THEN CHOOSE i \in 1..Len(s) :
                               s[i] = c /\ \A j \in (i + 1)..Len(s) : s[j] # c
    ELSE 0

RECURSIVE LStrip(_)
LStrip(s) == IF s # <<>> /\ Head(s) \in Whitespace THEN LStrip(Tail(s)) ELSE s

RECURSIVE RStrip(_)
RStrip(s) == IF s # <<>> /\ s[Len(s)] \in Whitespace
             THEN RStrip(SubSeq(s, 1, Len(s) - 1)) ELSE s

\* str.strip()
Strip(s) == RStrip(LStrip(s))

RECURSIVE Split(_, _)
\* str.split(sep) for a one-character separator
Split(s, sep) ==
    LET i == IndexOf(s, sep) IN
    IF i = 0 THEN <<s>>
    ELSE <<SubSeq(s, 1, i - 1)>> \o Split(SubSeq(s, i + 1, Len(s)), sep)

RECURSIVE ReadLines(_)
\* iterating a text file: each line with its terminating newline, the last
\* line as it is when the file does not end in a newline
ReadLines(s) ==
    LET i == IndexOf(s, NL) IN
    IF s = <<>> THEN <<>>
    ELSE IF i = 0 THEN <<s>>
    ELSE <<SubSeq(s, 1, i)>> \o ReadLines(SubSeq(s, i + 1, Len(s)))

UpperCase == <<"A", "B", "C", "D", "E", "F", "G", "H", "I", "J", "K", "L", "M",
               "N", "O", "P", "Q", "R", "S", "T", "U", "V", "W", "X", "Y", "Z">>
LowerCase == <<"a", "b", "c", "d", "e", "f", "g", "h", "i", "j", "k", "l", "m",
               "n", "o", "p", "q", "r", "s", "t", "u", "v", "w", "x", "y", "z">>

\* str.lower()
Lower(s) ==
    [i \in 1..Len(s) |->
        IF \E j \in 1..26 : UpperCase[j] = s[i]
        THEN LowerCase[CHOOSE j \in 1..26 : UpperCase[j] = s[i]]
        ELSE s[i]]

Digits == <<"0", "1", "2", "3", "4", "5", "6", "7", "8", "9">>

RECURSIVE NatStr(_)
NatStr(n) == IF n < 10 THEN <<Digits[n + 1]>>
             ELSE NatStr(n \div 10) \o <<Digits[(n % 10) + 1]>>

\* str(value) of a JSON value: a bool, an int or a string
Str(value) ==
    CASE value.t = "bool" -> IF value.b THEN <<"T", "r", "u", "e">>
                                        ELSE <<"F", "a", "l", "s", "e">>
      [] value.t = "int"  -> IF value.n < 0 THEN <<"-">> \o NatStr(0 - value.n)
                                            ELSE NatStr(value.n)
      [] value.t = "str"  -> value.s

----------------------------------------------------------------------------
(* Directories and dicts *)

Put(dir, name, bytes) ==
    [n \in DOMAIN dir \cup {name} |-> IF n = name THEN bytes ELSE dir[n]]

Unlink(dir, name) == [n \in DOMAIN dir \ {name} |-> dir[n]]

EmptyDir == [n \in {} |-> <<>>]

\* dict.get(key, default)
Get(d, key, default) == IF key \in DOMAIN d THEN d[key] ELSE default

DictKeys(d) == {d[i].k : i \in 1..Len(d)}

DictSetMovesKey(d, key, value) ==
    SelectSeq(d, LAMBDA e : e.k # key) \o <<[k |-> key, v |-> value]>>

\* config_data[key] = value: an existing key keeps its place, a new one goes last
DictSet(d, key, value) ==
    IF key \in DictKeys(d)
    THEN [i \in 1..Len(d) |-> IF d[i].k = key THEN [k |-> key, v |-> value] ELSE d[i]]
    ELSE Append(d, [k |-> key, v |-> value])

----------------------------------------------------------------------------
(* edit_configs on one file *)

SplitKeyValueAtLast(stripped) ==
    LET i == LastIndexOf(stripped, "=") IN
    [k |-> SubSeq(stripped, 1, i - 1), v |-> SubSeq(stripped, i + 1, Len(stripped))]

\* key, value = stripped.split("=", 1): at the first "="
SplitKeyValue(stripped) ==
    LET i == IndexOf(stripped, "=") IN
    [k |-> SubSeq(stripped, 1, i - 1), v |-> SubSeq(stripped, i + 1, Len(stripped))]

RECURSIVE ParseLines(_, _)
ParseLines(lines, config_data) ==
    IF lines = <<>> THEN config_data
    ELSE LET line == Head(lines)
             kv   == SplitKeyValue(Strip(line))
         IN  ParseLines(Tail(lines),
                        IF Contains(line, "=")
                        THEN DictSet(config_data, Strip(kv.k), Strip(kv.v))
                        ELSE config_data)

\* the dict read from config_path, empty when the file does not exist
LoadConfig(cfg, path) ==
    IF path \in DOMAIN cfg THEN ParseLines(ReadLines(cfg[path]), <<>>) ELSE <<>>

StrValueNoLower(value) == Str(value)

\* str(value).lower() if isinstance(value, bool) else str(value)
StrValue(value) == IF value.t = "bool" THEN Lower(Str(value)) ELSE Str(value)

RECURSIVE ApplyChanges(_, _)
ApplyChanges(config_data, changes) ==
    IF changes = <<>> THEN config_data
    ELSE ApplyChanges(DictSet(config_data, Head(changes).k, StrValue(Head(changes).v)),
                      Tail(changes))

\* the text written back: key=value and a newline per entry
SaveConfig(config_data) ==
    Concat([i \in 1..Len(config_data) |->
               config_data[i].k \o <<"=">> \o config_data[i].v \o <<NL>>])

\* the content of patch["file"] after the patch
Edited(cfg, patch) ==
    SaveConfig(ApplyChanges(LoadConfig(cfg, patch["file"]), patch["changes"]))

----------------------------------------------------------------------------
(* patch_mods *)

\* name = url.split("/")[-1]
UrlName(url) == LET parts == Split(url, "/") IN parts[Len(parts)]

\* (mods_dir / name).exists(): an empty name is mods/ itself
ModExists(dir, name) == name = <<>> \/ name \in DOMAIN dir

----------------------------------------------------------------------------
(* main *)

MainNextDownloadsFirst(finished, m) ==
    LET afterDownload == IF "config_patches" \in DOMAIN m THEN "edit" ELSE "done" IN
    CASE finished = "patch_mods" ->
             IF "config_downloads" \in DOMAIN m THEN "download" ELSE afterDownload
      [] finished = "download_configs" -> afterDownload
      [] finished = "edit_configs" -> "done"

\* where main() goes when one of its calls has returned
MainNext(finished, m) ==
    LET afterEdit == IF "config_downloads" \in DOMAIN m THEN "download" ELSE "done" IN
    CASE finished = "patch_mods" ->
             IF "config_patches" \in DOMAIN m THEN "edit" ELSE afterEdit
      [] finished = "edit_configs" -> afterEdit
      [] finished = "download_configs" -> "done"

Step(op, i, target, outcome, bytes) ==
    [op |-> op, i |-> i, target |-> target, outcome |-> outcome, bytes |-> bytes]

\* every step records the disk it started from
Snapshot == prevMods' = mods /\ prevConfig' = config

RaiseAndContinue(op, target, e) ==
    /\ pc' = pc
    /\ idx' = idx + 1
    /\ err' = e
    /\ last' = Step(op, idx, target, "raised", <<>>)

\* an exception: nothing in the program catches it, the process ends
Raise(op, target, e) ==
    /\ pc' = "aborted"
    /\ idx' = idx
    /\ err' = e
    /\ last' = Step(op, idx, target, "raised", <<>>)

----------------------------------------------------------------------------
(* Inputs: file names, URLs, downloadable bytes, manifests, initial disks *)

X == <<"x">>
Y == <<"y">>
F == <<"f">>
G == <<"g">>

UrlX    == <<"h", "/", "x">>
UrlX2   == <<"g", "/", "x">>
UrlY    == <<"h", "/", "d", "/", "y">>
UrlDir  == <<"h", "/">>
UrlCfgF == <<"h", "/", "f">>
UrlCfgG == <<"h", "/", "g">>

\* what a mod URL may serve, and what a file cut short by a failed transfer holds
ModBytes == {<<"1">>, <<"2">>}
Truncated == <<>>

\* what a config URL may serve
CfgBytes == {<<"a", "=", "9", NL>>, <<"k", NL>>}

JBool(b) == [t |-> "bool", b |-> b]
JInt(n)  == [t |-> "int", n |-> n]
JText(s) == [t |-> "str", s |-> s]
Change(key, value) == [k |-> key, v |-> value]

\* the spec's example patch {b: 3, c: true}
ChangesB3CTrue == <<Change(<<"b">>, JInt(3)), Change(<<"c">>, JBool(TRUE))>>

PatchF   == [file |-> F, changes |-> ChangesB3CTrue]
PatchG   == [file |-> G, changes |-> <<Change(<<"a">>, JText(<<"x">>))>>]
PatchBad == [file |-> F]     \* no "changes": patch["changes"] raises KeyError

Option(seq) == [has |-> TRUE, val |-> seq]
Absent      == [has |-> FALSE, val |-> <<>>]

\* the empty name designates mods/ itself, which exists and cannot be unlinked
RemoveOptions ==
    {Absent, Option(<<>>), Option(<<Y>>), Option(<<Y, X>>), Option(<<X, <<>>, Y>>)}
AddOptions ==
    {Absent, Option(<<>>), Option(<<[url |-> UrlX]>>),
     Option(<<[url |-> UrlX], [url |-> UrlY]>>),
     Option(<<[url |-> UrlDir], [url |-> UrlX2]>>)}
PatchOptions ==
    {Absent, Option(<<>>), Option(<<PatchF>>), Option(<<PatchG, PatchF>>),
     Option(<<PatchG, PatchBad>>)}
DownloadOptions ==
    {Absent, Option(<<>>), Option(<<[file |-> F, url |-> UrlCfgF]>>),
     Option(<<[file |-> G, url |-> UrlCfgG], [file |-> F, url |-> UrlCfgF]>>)}

\* the JSON object with exactly the keys that are present
MakeManifest(r, a, p, d) ==
    [key \in {k \in {"remove_mods", "add_mods", "config_patches", "config_downloads"} :
                 \/ k = "remove_mods" /\ r.has
                 \/ k = "add_mods" /\ a.has
                 \/ k = "config_patches" /\ p.has
                 \/ k = "config_downloads" /\ d.has} |->
        CASE key = "remove_mods" -> r.val
          [] key = "add_mods" -> a.val
          [] key = "config_patches" -> p.val
          [] key = "config_downloads" -> d.val]

Manifests ==
    {MakeManifest(r, a, p, d) : r \in RemoveOptions, a \in AddOptions,
                                p \in PatchOptions, d \in DownloadOptions}

\* the spec's example file {a=1, b=2}
TextA1B2 == <<"a", "=", "1", NL, "b", "=", "2", NL>>

InitialMods ==
    {EmptyDir, [n \in {X} |-> <<"0">>], [n \in {X, Y} |-> <<"0">>]}
InitialConfigs ==
    {EmptyDir, [n \in {F} |-> TextA1B2],
     [n \in {F, G} |-> IF n = F THEN <<"a", " ", "=", " ", "1", NL, "a", "=", "2">>
                                ELSE <<"#", NL>>]}

\* the directories that hold the files of a disk
DirsOf(ms, cfg) ==
    (IF DOMAIN ms # {} THEN {"mods"} ELSE {}) \cup
    (IF DOMAIN cfg # {} THEN {"config"} ELSE {})

----------------------------------------------------------------------------
(* The state before the first run *)

Start(m, ms, cfg) ==
    /\ manifest = m
    /\ mods = ms /\ config = cfg /\ dirs = DirsOf(ms, cfg)
    /\ idx = 1 /\ run = 1 /\ err = "none"
    /\ last = Step("start", 0, <<>>, "none", <<>>)
    /\ prevMods = ms /\ prevConfig = cfg
    /\ mods0 = ms /\ config0 = cfg
    /\ fetched = EmptyDir
    /\ retrieved = <<>>
    /\ outcomes = <<>>

Init ==
    /\ pc = "load"
    /\ \E m \in Manifests, ms \in InitialMods, cfg \in InitialConfigs :
           Start(m, ms, cfg)

----------------------------------------------------------------------------
(* load_manifest *)

Fixed == UNCHANGED <<manifest, mods0, config0>>

\* the manifest was read and parsed
LoadManifest ==
    /\ pc = "load"
    /\ pc' = "mkdir" /\ idx' = 1 /\ err' = err
    /\ last' = Step("load", 0, <<>>, "loaded", <<>>)
    /\ Snapshot /\ Fixed
    /\ UNCHANGED <<mods, config, dirs, run, fetched, retrieved, outcomes>>

\* FileNotFoundError, an HTTP error status, or a JSON parse error
LoadManifestRaise ==
    /\ pc = "load"
    /\ Raise("load", <<>>, "manifest")
    /\ Snapshot /\ Fixed
    /\ UNCHANGED <<mods, config, dirs, run, fetched, retrieved, outcomes>>

----------------------------------------------------------------------------
(* patch_mods *)

RemoveListDefaultX == Get(manifest, "remove_mods", <<X>>)

\* manifest.get("remove_mods", [])
RemoveList == Get(manifest, "remove_mods", <<>>)

\* manifest.get("add_mods", [])
AddList == Get(manifest, "add_mods", <<>>)

\* mods_dir.mkdir(exist_ok=True)
MakeModsDir ==
    /\ pc = "mkdir"
    /\ dirs' = dirs \cup {"mods"}
    /\ pc' = "remove" /\ idx' = 1 /\ err' = err
    /\ last' = Step("mkdir", 0, <<>>, "made", <<>>)
    /\ Snapshot /\ Fixed
    /\ UNCHANGED <<mods, config, run, fetched, retrieved, outcomes>>

TargetExistsAlways(dir, mod) == TRUE

\* if target.exists():
TargetExists(dir, mod) == ModExists(dir, mod)

\* one iteration of the remove loop; target.unlink() raises for a path
\* that is no file
RemoveMod ==
    /\ pc = "remove" /\ idx <= Len(RemoveList)
    /\ LET mod == RemoveList[idx] IN
       IF TargetExists(mods, mod)
       THEN IF mod \in DOMAIN mods
            THEN /\ mods' = Unlink(mods, mod)
                 /\ pc' = pc /\ idx' = idx + 1 /\ err' = err
                 /\ last' = Step("remove", idx, mod, "removed", <<>>)
            ELSE /\ mods' = mods
                 /\ Raise("remove", mod, "unlink")
       ELSE /\ mods' = mods
            /\ pc' = pc /\ idx' = idx + 1 /\ err' = err
            /\ last' = Step("remove", idx, mod, "skipped", <<>>)
    /\ Snapshot /\ Fixed
    /\ UNCHANGED <<config, dirs, run, fetched, retrieved, outcomes>>

\* the remove loop is exhausted
RemoveDone ==
    /\ pc = "remove" /\ idx > Len(RemoveList)
    /\ pc' = "add" /\ idx' = 1 /\ err' = err
    /\ last' = Step("next", 0, <<>>, "none", <<>>)
    /\ Snapshot /\ Fixed
    /\ UNCHANGED <<mods, config, dirs, run, fetched, retrieved, outcomes>>

NeedsDownloadAlways(dir, name) == TRUE

\* if not dest.exists():
NeedsDownload(dir, name) == ~ModExists(dir, name)

RetrievedElsewhere(dir, name, bytes) == dir

\* urlretrieve(url, dest): the bytes land in mods/<name>
Retrieved(dir, name, bytes) == Put(dir, name, bytes)

\* an add_mods entry whose file is there already
AddModSkip ==
    /\ pc = "add" /\ idx <= Len(AddList)
    /\ LET name == UrlName(AddList[idx]["url"]) IN
       /\ ~NeedsDownload(mods, name)
       /\ last' = Step("add", idx, name, "skipped", <<>>)
    /\ pc' = pc /\ idx' = idx + 1 /\ err' = err
    /\ Snapshot /\ Fixed
    /\ UNCHANGED <<mods, config, dirs, run, fetched, retrieved, outcomes>>

\* urlretrieve(url, dest) succeeds with whatever the URL serves
AddModDownload ==
    /\ pc = "add" /\ idx <= Len(AddList)
    /\ LET name == UrlName(AddList[idx]["url"]) IN
       /\ NeedsDownload(mods, name)
       /\ \E bytes \in ModBytes :
              /\ mods' = Retrieved(mods, name, bytes)
              /\ last' = Step("add", idx, name, "downloaded", bytes)
       /\ retrieved' = Append(retrieved, <<run, name>>)
    /\ pc' = pc /\ idx' = idx + 1 /\ err' = err
    /\ Snapshot /\ Fixed
    /\ UNCHANGED <<config, dirs, run, fetched, outcomes>>

\* urlretrieve(url, dest) raises: before dest is opened, or with dest cut short
AddModRaise ==
    /\ pc = "add" /\ idx <= Len(AddList)
    /\ LET name == UrlName(AddList[idx]["url"]) IN
       /\ NeedsDownload(mods, name)
       /\ \E opened \in BOOLEAN :
              mods' = IF opened THEN Put(mods, name, Truncated) ELSE mods
       /\ retrieved' = Append(retrieved, <<run, name>>)
       /\ Raise("add", name, "urlretrieve")
    /\ Snapshot /\ Fixed
    /\ UNCHANGED <<config, dirs, run, fetched, outcomes>>

\* the add loop is exhausted: patch_mods returns
AddDone ==
    /\ pc = "add" /\ idx > Len(AddList)
    /\ pc' = MainNext("patch_mods", manifest) /\ idx' = 1 /\ err' = err
    /\ last' = Step("next", 0, <<>>, "none", <<>>)
    /\ Snapshot /\ Fixed
    /\ UNCHANGED <<mods, config, dirs, run, fetched, retrieved, outcomes>>

----------------------------------------------------------------------------
(* edit_configs *)

\* one iteration: read, overlay, write back
EditConfig ==
    /\ pc = "edit" /\ idx <= Len(manifest["config_patches"])
    /\ LET patch == manifest["config_patches"][idx] IN
       /\ "changes" \in DOMAIN patch
       /\ config' = Put(config, patch["file"], Edited(config, patch))
       /\ last' = Step("edit", idx, patch["file"], "patched", <<>>)
    /\ dirs' = dirs \cup {"config"}
    /\ pc' = pc /\ idx' = idx + 1 /\ err' = err
    /\ Snapshot /\ Fixed
    /\ UNCHANGED <<mods, run, fetched, retrieved, outcomes>>

\* patch["changes"] raises KeyError, after makedirs and the read
EditConfigRaise ==
    /\ pc = "edit" /\ idx <= Len(manifest["config_patches"])
    /\ LET patch == manifest["config_patches"][idx] IN
       /\ "changes" \notin DOMAIN patch
       /\ Raise("edit", patch["file"], "KeyError")
    /\ dirs' = dirs \cup {"config"}
    /\ Snapshot /\ Fixed
    /\ UNCHANGED <<mods, config, run, fetched, retrieved, outcomes>>

\* the patch loop is exhausted: edit_configs returns
EditDone ==
    /\ pc = "edit" /\ idx > Len(manifest["config_patches"])
    /\ pc' = MainNext("edit_configs", manifest) /\ idx' = 1 /\ err' = err
    /\ last' = Step("next", 0, <<>>, "none", <<>>)
    /\ Snapshot /\ Fixed
    /\ UNCHANGED <<mods, config, dirs, run, fetched, retrieved, outcomes>>

----------------------------------------------------------------------------
(* download_configs *)

SavedIfMissing(cfg, path, bytes) ==
    IF path \in DOMAIN cfg THEN cfg ELSE Put(cfg, path, bytes)

\* with open(file_path, "wb") as f: f.write(r.content)
Saved(cfg, path, bytes) == Put(cfg, path, bytes)

\* one iteration whose fetch succeeds
DownloadConfig ==
    /\ pc = "download" /\ idx <= Len(manifest["config_downloads"])
    /\ LET entry == manifest["config_downloads"][idx] IN
       \E bytes \in CfgBytes :
           /\ config' = Saved(config, entry["file"], bytes)
           /\ fetched' = Put(fetched, entry["file"], bytes)
           /\ last' = Step("download", idx, entry["file"], "saved", bytes)
    /\ dirs' = dirs \cup {"config"}
    /\ pc' = pc /\ idx' = idx + 1 /\ err' = err
    /\ Snapshot /\ Fixed
    /\ UNCHANGED <<mods, run, retrieved, outcomes>>

\* requests.get or raise_for_status raises, after makedirs, before the write
DownloadConfigRaise ==
    /\ pc = "download" /\ idx <= Len(manifest["config_downloads"])
    /\ Raise("download", manifest["config_downloads"][idx]["file"], "HTTPError")
    /\ dirs' = dirs \cup {"config"}
    /\ Snapshot /\ Fixed
    /\ UNCHANGED <<mods, config, run, fetched, retrieved, outcomes>>

\* the download loop is exhausted: download_configs returns
DownloadDone ==
    /\ pc = "download" /\ idx > Len(manifest["config_downloads"])
    /\ pc' = MainNext("download_configs", manifest) /\ idx' = 1 /\ err' = err
    /\ last' = Step("next", 0, <<>>, "none", <<>>)
    /\ Snapshot /\ Fixed
    /\ UNCHANGED <<mods, config, dirs, run, fetched, retrieved, outcomes>>

----------------------------------------------------------------------------
(* The program is started again on the directory the last run left *)

Rerun ==
    /\ pc \in {"done", "aborted"} /\ run < MaxRuns
    /\ outcomes' = Append(outcomes, pc)
    /\ run' = run + 1
    /\ pc' = "load" /\ idx' = 1 /\ err' = "none"
    /\ fetched' = EmptyDir
    /\ last' = Step("start", 0, <<>>, "none", <<>>)
    /\ Snapshot /\ Fixed
    /\ UNCHANGED <<mods, config, dirs, retrieved>>

Next ==
    \/ LoadManifest \/ LoadManifestRaise
    \/ MakeModsDir
    \/ RemoveMod \/ RemoveDone
    \/ AddModSkip \/ AddModDownload \/ AddModRaise \/ AddDone
    \/ EditConfig \/ EditConfigRaise \/ EditDone
    \/ DownloadConfig \/ DownloadConfigRaise \/ DownloadDone
    \/ Rerun

Spec == Init /\ [][Next]_vars

----------------------------------------------------------------------------
(* edit_configs alone, on every short config file *)

Alphabet == {"a", "b", "=", " ", NL}

\* every text of at most n characters
Texts(n) == UNION {[1..len -> Alphabet] : len \in 0..n}

ExistingTexts ==
    Texts(MaxLen) \cup
    {TextA1B2,
     <<"a", " ", "=", " ", "1", NL, "#", "c", NL, NL, "a", "=", "2">>,
     <<"b", "=", "1", "=", "2", NL, "a", "=", "1", NL>>}

EditChanges ==
    {<<>>,
     ChangesB3CTrue,
     <<Change(<<"a">>, JText(<<"x">>))>>,
     <<Change(<<"a">>, JBool(FALSE)), Change(<<"b">>, JInt(10))>>,
     <<Change(<<"b">>, JInt(-7)), Change(<<>>, JText(<<>>))>>,
     <<Change(<<"a">>, JText(<<" ", "1">>))>>,
     <<Change(<<"a">>, JText(<<"1", "=", "2">>))>>,
     <<Change(<<" ", "a">>, JInt(1))>>,
     <<Change(<<"a", "=", "b">>, JInt(1))>>,
     <<Change(<<"a">>, JText(<<"1", NL, "b", "=", "2">>))>>,
     <<Change(<<"a", NL, "b">>, JInt(1))>>}

EditPatchLists ==
    {<<PatchBad>>} \cup
    UNION {{<<[file |-> F, changes |-> ch]>>,
            <<[file |-> F, changes |-> ch], [file |-> F, changes |-> ch]>>} :
           ch \in EditChanges}

InitEdit ==
    /\ pc = "edit"
    /\ \E ps \in EditPatchLists,
          cfg \in {EmptyDir} \cup {[n \in {F} |-> t] : t \in ExistingTexts} :
           Start([key \in {"config_patches"} |-> ps], EmptyDir, cfg)

NextEdit == EditConfig \/ EditConfigRaise \/ EditDone

SpecEdit == InitEdit /\ [][NextEdit]_vars

----------------------------------------------------------------------------
(* What the properties below read off the state *)

LastPatch == manifest["config_patches"][last.i]

Patched == last.op = "edit" /\ last.outcome = "patched"

\* the text a change value is to be written as
Rendered(value) ==
    CASE value.t = "bool" -> IF value.b THEN <<"t", "r", "u", "e">>
                                        ELSE <<"f", "a", "l", "s", "e">>
      [] value.t = "int"  -> Str(value)
      [] value.t = "str"  -> value.s

KeyValueLine(key, value) == key \o <<"=">> \o value \o <<NL>>

\* the pairs of old overlaid with changes, as lines: the keys of old in their
\* order, each with the patch's value when the patch names it, then the
\* patch's other keys in patch order
MergedText(old, changes) ==
    LET patchValue(key) ==
            Rendered(changes[CHOOSE j \in 1..Len(changes) : changes[j].k = key].v)
        kept  == [i \in 1..Len(old) |->
                     KeyValueLine(old[i].k,
                                  IF \E j \in 1..Len(changes) : changes[j].k = old[i].k
                                  THEN patchValue(old[i].k) ELSE old[i].v)]
        new   == SelectSeq(changes, LAMBDA c : c.k \notin DictKeys(old))
        added == [i \in 1..Len(new) |-> KeyValueLine(new[i].k, Rendered(new[i].v))]
    IN  Concat(kept \o added)

TextA1B3CTrue ==
    <<"a", "=", "1", NL, "b", "=", "3", NL, "c", "=", "t", "r", "u", "e", NL>>

TextB3CTrue == <<"b", "=", "3", NL, "c", "=", "t", "r", "u", "e", NL>>

----------------------------------------------------------------------------
(* C1: after edit_configs has patched a file that existed, the file holds  *)
(* exactly the pairs it held overlaid with the patch's changes, one        *)
(* key=value line per entry: the old keys in their order (with the patch's *)
(* value where the patch names the key, booleans as true/false), then the  *)
(* new keys in patch order; {a=1, b=2} patched with {b: 3, c: true} gives  *)
(* exactly a=1, b=3, c=true.                                               *)
C1_Merge ==
    (Patched /\ last.target \in DOMAIN prevConfig) =>
        /\ last.target \in DOMAIN config
        /\ config[last.target] =
               MergedText(LoadConfig(prevConfig, last.target), LastPatch["changes"])
        /\ (prevConfig[last.target] = TextA1B2 /\ LastPatch["changes"] = ChangesB3CTrue)
               => config[last.target] = TextA1B3CTrue
        /\ \A other \in DOMAIN prevConfig \ {last.target} :
               other \in DOMAIN config /\ config[other] = prevConfig[other]

C1_Witness ==
    /\ Patched /\ last.target \in DOMAIN prevConfig
    /\ prevConfig[last.target] = TextA1B2
    /\ LastPatch["changes"] = ChangesB3CTrue
    /\ config[last.target] = TextA1B3CTrue

(* C5: after edit_configs has patched a file that did not exist, the file  *)
(* exists, under an existing config/, and holds exactly one key=value line *)
(* per change of the patch, in patch order.                                *)
C5_CreatesFile ==
    (Patched /\ last.target \notin DOMAIN prevConfig) =>
        /\ last.target \in DOMAIN config
        /\ "config" \in dirs
        /\ config[last.target] =
               Concat([i \in 1..Len(LastPatch["changes"]) |->
                          KeyValueLine(LastPatch["changes"][i].k,
                                       Rendered(LastPatch["changes"][i].v))])

C5_Witness ==
    /\ Patched /\ last.target \notin DOMAIN prevConfig
    /\ LastPatch["changes"] = ChangesB3CTrue
    /\ config[last.target] = TextB3CTrue

\* the same patch was applied twice in a row, and the second time just now
AppliedTwice ==
    /\ Patched /\ last.i = 2
    /\ manifest["config_patches"][1] = manifest["config_patches"][2]

HasLineBreak(s) == Contains(s, NL)

\* a key that the parser reads back as it was written
PlainKey(key) == Strip(key) = key /\ ~Contains(key, "=") /\ ~HasLineBreak(key)

PlainChanges(changes) ==
    \A i \in 1..Len(changes) :
        /\ PlainKey(changes[i].k)
        /\ ~HasLineBreak(Rendered(changes[i].v))

OneLineChanges(changes) ==
    \A i \in 1..Len(changes) :
        ~HasLineBreak(changes[i].k) /\ ~HasLineBreak(Rendered(changes[i].v))

(* C9 as stated, on the patches it names (keys and values of one line,     *)
(* with or without surrounding whitespace or "="): applying the same patch *)
(* twice in succession leaves the file as applying it once did.            *)
C9_IdempotentAnyPatch ==
    (AppliedTwice /\ OneLineChanges(LastPatch["changes"])) =>
        config[last.target] = prevConfig[last.target]

(* C9 amended: applying the same patch twice in succession leaves the file *)
(* as applying it once did, provided every key of the patch has no         *)
(* surrounding whitespace and no "=", and no key or value holds a line     *)
(* break (values may carry surrounding whitespace or "=").                 *)
C9_IdempotentPlainPatch ==
    (AppliedTwice /\ PlainChanges(LastPatch["changes"])) =>
        config[last.target] = prevConfig[last.target]

C9_Witness ==
    /\ AppliedTwice /\ PlainChanges(LastPatch["changes"])
    /\ \E i \in 1..Len(LastPatch["changes"]) :
           /\ LastPatch["changes"][i].v.t = "str"
           /\ Contains(LastPatch["changes"][i].v.s, "=")
    /\ last.target \in DOMAIN config0
    /\ Len(LoadConfig(config0, last.target)) = 2
    /\ config[last.target] = prevConfig[last.target]
    /\ config[last.target] # config0[last.target]

----------------------------------------------------------------------------
Range(seq) == {seq[i] : i \in 1..Len(seq)}

\* the runs that followed a run that completed
SecondRuns == {r \in 2..run : outcomes[r - 1] = "done"}

\* the urlretrieve calls of run r for the file name
Retrievals(r, name) == {j \in 1..Len(retrieved) : retrieved[j] = <<r, name>>}

(* C2 as stated: when the program runs again after a completed run with    *)
(* the same manifest, the second run downloads no add_mods file, and the   *)
(* two runs together download each add_mods file at most once.            *)
C2_SecondRunDownloadsNothing ==
    \A r \in SecondRuns : \A i \in 1..Len(AddList) :
        LET name == UrlName(AddList[i]["url"]) IN
        /\ Retrievals(r, name) = {}
        /\ Cardinality(Retrievals(r - 1, name)) <= 1

(* C2 amended: when the program runs again after a completed run with the  *)
(* same manifest, the second run downloads no add_mods file whose name is  *)
(* not also listed in remove_mods, and the two runs together download each *)
(* such file at most once.                                                 *)
C2_SecondRunDownloadsNothingUnlessRemoved ==
    \A r \in SecondRuns : \A i \in 1..Len(AddList) :
        LET name == UrlName(AddList[i]["url"]) IN
        name \notin Range(RemoveList) =>
            /\ Retrievals(r, name) = {}
            /\ Cardinality(Retrievals(r - 1, name)) <= 1

C2_Witness ==
    /\ run = 2 /\ pc = "done" /\ outcomes[1] = "done"
    /\ X \notin Range(RemoveList)
    /\ Retrievals(1, X) # {}
    /\ Retrievals(2, X) = {}
    /\ last.op # "start"

(* C3: once a step has raised, the step that raised is the last step of    *)
(* the run (no later step runs, the process is over), and what the earlier *)
(* steps left on disk is still there: config/ is as it was before the      *)
(* failing step, and so is every file that was in mods/.                   *)
C3_NoRollbackNoContinuation ==
    /\ err # "none" => pc = "aborted" /\ last.outcome = "raised"
    /\ pc = "aborted" => err # "none"
    /\ last.outcome = "raised" =>
           /\ config = prevConfig
           /\ \A name \in DOMAIN prevMods :
                  name \in DOMAIN mods /\ mods[name] = prevMods[name]

C3_Witness ==
    /\ pc = "aborted" /\ last.op = "download" /\ last.i = 2
    /\ X \in DOMAIN mods /\ mods[X] \in ModBytes
    /\ Y \in DOMAIN mods0 /\ Y \notin DOMAIN mods
    /\ config # config0

\* text ends with "/" followed by name, or is name when it holds no "/"
IsLastSegment(name, text) ==
    /\ ~Contains(name, "/")
    /\ \/ text = name
       \/ /\ Len(text) > Len(name)
          /\ text[Len(text) - Len(name)] = "/"
          /\ SubSeq(text, Len(text) - Len(name) + 1, Len(text)) = name

(* C4: the file an add_mods entry is about is named by the last path       *)
(* segment of its URL; when a file of that name is in mods/ the step       *)
(* leaves it (and mods/) as it was, and urlretrieve is called only when    *)
(* there is none; no add step touches another file.                        *)
C4_NeverOverwrites ==
    last.op = "add" =>
        /\ IsLastSegment(last.target, AddList[last.i]["url"])
        /\ last.target \in DOMAIN prevMods =>
               last.outcome = "skipped" /\ mods = prevMods
        /\ last.outcome \in {"downloaded", "raised"} =>
               last.target \notin DOMAIN prevMods
        /\ \A name \in DOMAIN prevMods :
               name \in DOMAIN mods /\ mods[name] = prevMods[name]

C4_Witness ==
    /\ last.op = "add" /\ last.outcome = "skipped"
    /\ AddList[last.i]["url"] = UrlY
    /\ last.target = Y
    /\ Y \in DOMAIN prevMods /\ mods[Y] = <<"0">>

\* all four lists of the manifest are empty or absent
EmptyManifest == \A key \in DOMAIN manifest : Len(manifest[key]) = 0

(* C6: under a manifest whose lists are all empty or absent, every file of *)
(* the instance directory is, at every point of every run, as it was       *)
(* before the first run; only directories may have been added.             *)
C6_EmptyManifestNoOp ==
    EmptyManifest =>
        /\ mods = mods0 /\ config = config0
        /\ DirsOf(mods0, config0) \subseteq dirs
        /\ dirs \subseteq {"mods", "config"}

C6_Witness ==
    /\ EmptyManifest /\ pc = "done" /\ run = 2
    /\ DOMAIN manifest = {"add_mods", "config_patches"}
    /\ X \in DOMAIN mods0 /\ F \in DOMAIN config0
    /\ mods = mods0 /\ config = config0

(* C7: after a config_downloads step whose fetch succeeded, the            *)
(* destination holds exactly the bytes fetched, whether or not it existed  *)
(* and whatever it held; the other config files are untouched.             *)
C7_DownloadOverwrites ==
    (last.op = "download" /\ last.outcome = "saved") =>
        /\ last.target \in DOMAIN config
        /\ config[last.target] = last.bytes
        /\ \A other \in DOMAIN prevConfig \ {last.target} :
               other \in DOMAIN config /\ config[other] = prevConfig[other]

C7_Witness ==
    /\ last.op = "download" /\ last.outcome = "saved"
    /\ last.target \in DOMAIN prevConfig
    /\ prevConfig[last.target] # last.bytes
    /\ prevConfig[last.target] \in CfgBytes
    /\ config[last.target] = last.bytes
    /\ run = 2

(* C8: a remove_mods name with nothing at its path under mods/ raises     *)
(* nothing and changes nothing under mods/, and patch_mods is then at the  *)
(* next remove_mods entry, or at the add_mods loop after the last one.     *)
C8_RemoveMissingIsNoOp ==
    (last.op = "remove" /\ ~ModExists(prevMods, last.target)) =>
        /\ err = "none" /\ last.outcome = "skipped"
        /\ mods = prevMods
        /\ pc = "remove" /\ idx = last.i + 1

C8_Witness ==
    /\ last.op = "remove" /\ last.target = Y /\ Y \notin DOMAIN prevMods
    /\ X \in DOMAIN mods
    /\ pc = "remove" /\ idx <= Len(RemoveList)
    /\ AddList # <<>>

\* the config files the manifest's patches name
PatchedFiles ==
    {Get(manifest, "config_patches", <<>>)[i]["file"] :
        i \in 1..Len(Get(manifest, "config_patches", <<>>))}

(* C10: no config patch is applied once a config download of the same run  *)
(* has been saved, and when a run has completed, every file that is named  *)
(* by a patch and by a download holds exactly the bytes downloaded for it. *)
C10_PatchesBeforeDownloads ==
    /\ last.op = "edit" => fetched = EmptyDir
    /\ pc = "done" =>
           \A file \in DOMAIN fetched \cap PatchedFiles :
               file \in DOMAIN config /\ config[file] = fetched[file]

C10_Witness ==
    /\ pc = "done"
    /\ F \in DOMAIN fetched \cap PatchedFiles
    /\ F \in DOMAIN config0
    /\ config[F] = fetched[F]
    /\ G \in DOMAIN config /\ G \notin DOMAIN fetched
    /\ config[G] # Get(config0, G, <<>>)

====
